---- MODULE Spec2Model ----
(***************************************************************************)
(* Model of the governance-seatbelt entry point (src/index.ts): main()      *)
(* simulates governance proposals one after another, then runs the enabled *)
(* checks on every simulation output and hands the results to the report   *)
(* generator.  Strings are sequences of one-character strings.             *)
(***************************************************************************)
EXTENDS Integers, Sequences, FiniteSets, TLC

VARIABLES
  SIM_NAME,          \* process.env.SIM_NAME is set (BOOLEAN)
  GOVERNOR_ADDRESS,  \* process.env.GOVERNOR_ADDRESS is set (BOOLEAN)
  DAO_NAME,          \* process.env.DAO_NAME is set (BOOLEAN)
  CHECKS_ENABLED,    \* process.env.CHECKS_ENABLED: [defined, value]
  pc,                \* position of main()
  governorType,      \* let governorType
  inferCalls,        \* number of inferGovernorType calls made
  proposalIds,       \* const proposalIds
  states,            \* const states
  simProposals,      \* const simProposals
  simIdx,            \* position of the for-of loop over simProposals
  config,            \* const config of the current iteration
  pdfExists,         \* results of fs.existsSync, by proposal id
  inFlight,          \* simulate requests issued and not yet completed
  simLog,            \* configs handed to simulate, in issue order
  simFailed,         \* proposal ids whose simulate request rejected
  simOutputs,        \* const simOutputs
  proposalData,      \* const proposalData (timelock resolved or not)
  outIdx,            \* position of the for-of loop over simOutputs
  checksToRun,       \* const checksToRun of the current iteration
  checkStatus,       \* state of each checkProposal promise of the iteration
  checkArgs,         \* arguments each checkProposal of the iteration was called with
  checkResults,      \* const checkResults of the current iteration
  faulted,           \* <<output index, checkId>> of every check that threw
  checkLog,          \* output indexes whose checks were started, in order
  reportLog,         \* arguments of every generateAndSaveReports call
  thrown,            \* the await whose rejection main() propagated, or "none"
  exitCode,          \* arguments of the process.exit calls made: <<>>, <<0>> or <<1>>
  actions,           \* the (target, calldata) pairs of the proposal being decoded
  stage,             \* how far the decoding of each action has come
  contractName,      \* contract name resolved for each action's target
  prose,             \* text rendered for each action
  tokenDecimals,     \* decimals() of the token at each address
  raised             \* an error left the decoding of an action

vars == <<SIM_NAME, GOVERNOR_ADDRESS, DAO_NAME, CHECKS_ENABLED, pc, governorType,
          inferCalls, proposalIds, states, simProposals, simIdx, config, pdfExists,
          inFlight, simLog, simFailed, simOutputs, proposalData, outIdx, checksToRun,
          checkStatus, checkArgs, checkResults, faulted, checkLog, reportLog, thrown,
          exitCode, actions, stage, contractName, prose, tokenDecimals, raised>>

fmtVars == <<actions, stage, contractName, prose, tokenDecimals, raised>>

----------------------------------------------------------------------------
(* Bounds of the model *)

\* most proposal ids getProposalIds returns
MaxProposals == 2
\* largest ordinal governor.state answers (the state table ends at 7)
MaxOrdinal == 8
\* longest CHECKS_ENABLED value
MaxEnvLen == 3

----------------------------------------------------------------------------
(* Helpers *)

Range(s) == {s[i] : i \in DOMAIN s}

\* strictly increasing sequence of the elements of a set of integers
RECURSIVE SortedSeq(_)
SortedSeq(S) ==
  IF S = {} THEN <<>>
  ELSE LET m == CHOOSE x \in S : \A y \in S : x <= y
       IN <<m>> \o SortedSeq(S \ {m})

SeqsUpTo(S, n) == UNION {[1..k -> S] : k \in 0..n}

Digit == <<"0", "1", "2", "3", "4", "5", "6", "7", "8", "9">>

\* String(n) of a non-negative integer: its decimal digits
RECURSIVE String(_)
String(n) ==
  IF n < 10 THEN <<Digit[n + 1]>>
  ELSE String(n \div 10) \o <<Digit[(n % 10) + 1]>>

\* s.split(',')
RECURSIVE Split(_)
Split(s) ==
  IF \E i \in 1..Len(s) : s[i] = ","
  THEN LET i == CHOOSE j \in 1..Len(s) : s[j] = "," /\ \A k \in 1..(j - 1) : s[k] # ","
       IN <<SubSeq(s, 1, i - 1)>> \o Split(SubSeq(s, i + 1, Len(s)))
  ELSE <<s>>

\* arr.includes(k)
Includes(arr, k) == \E i \in DOMAIN arr : arr[i] = k

----------------------------------------------------------------------------
(* Collaborators outside src/ *)

\* PROPOSAL_STATES of utils/contracts/governor-bravo: ordinal key -> stage
PROPOSAL_STATES ==
  (<<"0">> :> "Pending") @@ (<<"1">> :> "Active") @@ (<<"2">> :> "Canceled") @@
  (<<"3">> :> "Defeated") @@ (<<"4">> :> "Succeeded") @@ (<<"5">> :> "Queued") @@
  (<<"6">> :> "Expired") @@ (<<"7">> :> "Executed")

\* PROPOSAL_STATES[state]; a key without entry reads as undefined
Lookup(state) ==
  IF state \in DOMAIN PROPOSAL_STATES THEN PROPOSAL_STATES[state] ELSE "undefined"

\* Object.keys(ALL_CHECKS), in registration order
ALL_CHECKS_KEYS == << <<"a">>, <<"a", "a">> >>

\* ALL_CHECKS[checkId].name
CheckName(checkId) == <<"name">> \o checkId

\* what ALL_CHECKS[checkId].checkProposal(proposal, sim, proposalData) resolves to
CheckValue(checkId, proposal, sim) == [check |-> checkId, proposal |-> proposal, sim |-> sim]

GovernorTypes == {"bravo", "oz"}
Ordinals == 0..MaxOrdinal
ProposalIdSet == 1..MaxProposals
EnvAlphabet == {"a", ","}
EnvValues ==
  {[defined |-> FALSE, value |-> <<>>]} \cup
  {[defined |-> TRUE, value |-> s] : s \in SeqsUpTo(EnvAlphabet, MaxEnvLen)}

----------------------------------------------------------------------------
(* Pure parts of main() *)

\* variant of SimTypeOf: a proposal waiting in the timelock is replayed as well
SimTypeOf_AlsoQueued(st) ==
  LET state == String(st)
      isExecuted == Lookup(state) \in {"Executed", "Queued"}
  IN IF isExecuted THEN "executed" ELSE "proposed"

\* variant of SimTypeOf: a state without table entry is taken for a new proposal
SimTypeOf_NewForUnknown(st) ==
  LET state == String(st)
  IN IF Lookup(state) = "undefined" THEN "new"
     ELSE IF Lookup(state) = "Executed" THEN "executed" ELSE "proposed"

\* index.ts 80-82: the simType of a proposal whose governor state is `st`
SimTypeOf(st) ==
  LET state == String(st)
      isExecuted == Lookup(state) = "Executed"
  IN IF isExecuted THEN "executed" ELSE "proposed"

\* variant of SimProposalsOf: the proposals are listed newest first
SimProposalsOf_Reversed(ids, sts) ==
  [i \in DOMAIN ids |->
     [id |-> ids[Len(ids) + 1 - i], simType |-> SimTypeOf(sts[Len(ids) + 1 - i])]]

\* index.ts 76-83
SimProposalsOf(ids, sts) ==
  [i \in DOMAIN ids |-> [id |-> ids[i], simType |-> SimTypeOf(sts[i])]]

\* variant of ConfigOf: the governor type is a fixed default
ConfigOf_DefaultType(simProposal, gType) ==
  [type |-> simProposal.simType, daoName |-> "DAO_NAME",
   governorAddress |-> "GOVERNOR_ADDRESS", governorType |-> "bravo",
   proposalId |-> simProposal.id]

\* index.ts 99-105
ConfigOf(simProposal, gType) ==
  [type |-> simProposal.simType, daoName |-> "DAO_NAME",
   governorAddress |-> "GOVERNOR_ADDRESS", governorType |-> gType,
   proposalId |-> simProposal.id]

\* variant of ShouldSkip: the existing report is not looked at
ShouldSkip_IgnorePdf(simType, exists) == simType # "executed"

\* index.ts 110: the iteration is skipped
ShouldSkip(simType, exists) == simType # "executed" \/ exists

\* s.includes(k) of a string: k occurs in s
IsSubstring(k, s) == \E i \in 1..(Len(s) - Len(k) + 1) : SubSeq(s, i, i + Len(k) - 1) = k

\* variant of ChecksToRun: includes is applied to the unsplit value
ChecksToRun_Substring(env) ==
  LET Enabled(k) == (~env.defined \/ env.value = <<>>) \/ IsSubstring(k, env.value)
  IN SelectSeq(ALL_CHECKS_KEYS, Enabled)

\* index.ts 131-133
ChecksToRun(env) ==
  LET Enabled(k) == (~env.defined \/ env.value = <<>>) \/ Includes(Split(env.value), k)
  IN SelectSeq(ALL_CHECKS_KEYS, Enabled)

----------------------------------------------------------------------------
(* State *)

SimTypes == {"new", "proposed", "executed"}
EmptyMap == [k \in {} |-> "none"]
NoConfig == [type |-> "none", daoName |-> "none", governorAddress |-> "none",
             governorType |-> "none", proposalId |-> 0]
CheckIds == Range(ALL_CHECKS_KEYS)

Init ==
  /\ SIM_NAME \in BOOLEAN
  /\ GOVERNOR_ADDRESS \in BOOLEAN
  /\ DAO_NAME \in BOOLEAN
  /\ CHECKS_ENABLED \in EnvValues
  /\ pc = "start"
  /\ governorType = "unset"
  /\ inferCalls = 0
  /\ proposalIds = <<>>
  /\ states = <<>>
  /\ simProposals = <<>>
  /\ simIdx = 1
  /\ config = NoConfig
  /\ pdfExists = [id \in ProposalIdSet |-> "unqueried"]
  /\ inFlight = {}
  /\ simLog = <<>>
  /\ simFailed = {}
  /\ simOutputs = <<>>
  /\ proposalData = [timelock |-> <<"unresolved">>]
  /\ outIdx = 1
  /\ checksToRun = <<>>
  /\ checkStatus = [c \in CheckIds |-> "idle"]
  /\ checkArgs = EmptyMap
  /\ checkResults = EmptyMap
  /\ faulted = {}
  /\ checkLog = <<>>
  /\ reportLog = <<>>
  /\ thrown = "none"
  /\ exitCode = <<>>
  /\ actions = <<>>
  /\ stage = <<>>
  /\ contractName = <<>>
  /\ prose = <<>>
  /\ tokenDecimals = <<>>
  /\ raised = FALSE

envVars == <<SIM_NAME, GOVERNOR_ADDRESS, DAO_NAME, CHECKS_ENABLED>>
govVars == <<governorType, inferCalls>>
batchVars == <<proposalIds, states, simProposals>>
simVars == <<simIdx, config, pdfExists, inFlight, simLog, simFailed, simOutputs>>
checkVars == <<outIdx, checksToRun, checkStatus, checkArgs, checkResults, faulted,
              checkLog>>

\* a rejected await propagates out of main()
Throw(what) == pc' = "rejected" /\ thrown' = what

----------------------------------------------------------------------------
(* main(): the SIM_NAME branch, index.ts 38-47 *)

\* index.ts 40-41: the config of ./sims/${SIM_NAME}.sim.ts
ImportConfig ==
  /\ pc = "start" /\ SIM_NAME
  /\ \E t \in SimTypes, g \in GovernorTypes, id \in ProposalIdSet :
       config' = [type |-> t, daoName |-> "config.daoName",
                  governorAddress |-> "config.governorAddress",
                  governorType |-> g, proposalId |-> id]
  /\ pc' = "callSimulate"
  /\ UNCHANGED <<fmtVars, envVars, govVars, batchVars, simIdx, pdfExists, inFlight, simLog,
                 simFailed, simOutputs, proposalData, checkVars, reportLog, thrown,
                 exitCode>>

\* index.ts 43: simulate(config) is called
SimulateSingle ==
  /\ pc = "callSimulate"
  /\ inFlight' = inFlight \cup {config.proposalId}
  /\ simLog' = Append(simLog, config)
  /\ pc' = "awaitSimulate"
  /\ UNCHANGED <<fmtVars, envVars, govVars, batchVars, simIdx, config, pdfExists, simFailed,
                 simOutputs, proposalData, checkVars, reportLog, thrown, exitCode>>

----------------------------------------------------------------------------
(* main(): the batch branch, index.ts 48-119 *)

\* index.ts 50-51
RequireEnv ==
  /\ pc = "start" /\ ~SIM_NAME
  /\ IF ~GOVERNOR_ADDRESS THEN Throw("GOVERNOR_ADDRESS")
     ELSE IF ~DAO_NAME THEN Throw("DAO_NAME")
     ELSE pc' = "getLatestBlock" /\ UNCHANGED thrown
  /\ UNCHANGED <<fmtVars, envVars, govVars, batchVars, simVars, proposalData, checkVars,
                 reportLog, exitCode>>

\* index.ts 52
GetLatestBlock ==
  /\ pc = "getLatestBlock"
  /\ pc' = "inferGovernorType"
  /\ UNCHANGED <<fmtVars, envVars, govVars, batchVars, simVars, proposalData, checkVars,
                 reportLog, thrown, exitCode>>

\* index.ts 55 and 71 (batch), 46-47 (SIM_NAME)
InferGovernorType ==
  /\ pc = "inferGovernorType"
  /\ \E g \in GovernorTypes : governorType' = g
  /\ inferCalls' = inferCalls + 1
  /\ pc' = IF SIM_NAME THEN "getTimelock" ELSE "getProposalIds"
  /\ UNCHANGED <<fmtVars, envVars, batchVars, simVars, proposalData, checkVars, reportLog,
                 thrown, exitCode>>

\* index.ts 56: the ids in creation order
GetProposalIds ==
  /\ pc = "getProposalIds"
  /\ \E S \in SUBSET ProposalIdSet : proposalIds' = SortedSeq(S)
  /\ pc' = "fetchStates"
  /\ UNCHANGED <<fmtVars, envVars, govVars, states, simProposals, simVars, proposalData,
                 checkVars, reportLog, thrown, exitCode>>

\* index.ts 75-84: every governor.state(id) resolved, then the map
FetchStates ==
  /\ pc = "fetchStates"
  /\ \E sts \in [DOMAIN proposalIds -> Ordinals] :
       /\ states' = sts
       /\ simProposals' = SimProposalsOf(proposalIds, sts)
  /\ pc' = "simLoop"
  /\ UNCHANGED <<fmtVars, envVars, govVars, proposalIds, simVars, proposalData, checkVars,
                 reportLog, thrown, exitCode>>

\* variant of AfterSimulateCall: the promise is not awaited
AfterSimulateCall_NoAwait == pc' = "simLoop" /\ simIdx' = simIdx + 1

\* index.ts 116: `await` suspends the loop until simulate settles
AfterSimulateCall == pc' = "awaitSimulate" /\ UNCHANGED simIdx

\* index.ts 96-116: one iteration up to `continue` or to the call of simulate
SimLoopStep ==
  /\ pc = "simLoop" /\ simIdx <= Len(simProposals)
  /\ LET simProposal == simProposals[simIdx] IN
       IF simProposal.simType = "new"
       THEN /\ Throw("new")
            /\ UNCHANGED simVars
       ELSE /\ config' = ConfigOf(simProposal, governorType)
            /\ \E exists \in BOOLEAN :
                 /\ pdfExists' = [pdfExists EXCEPT ![simProposal.id] =
                                    IF exists THEN "present" ELSE "absent"]
                 /\ IF ShouldSkip(simProposal.simType, exists)
                    THEN /\ simIdx' = simIdx + 1
                         /\ pc' = "simLoop"
                         /\ UNCHANGED <<inFlight, simLog>>
                    ELSE /\ inFlight' = inFlight \cup {simProposal.id}
                         /\ simLog' = Append(simLog, config')
                         /\ AfterSimulateCall
            /\ UNCHANGED <<simFailed, simOutputs, thrown>>
  /\ UNCHANGED <<fmtVars, envVars, govVars, batchVars, proposalData, checkVars, reportLog,
                 exitCode>>

\* variant of PushOutput: the output is stored twice
PushOutput_Twice(outs, o) == outs \o <<o, o>>

\* index.ts 44 and 117: simOutputs.push
PushOutput(outs, o) == Append(outs, o)

\* index.ts 43-44 and 116-117: simulate resolved
SimulateReturn ==
  /\ pc = "awaitSimulate" /\ config.proposalId \in inFlight
  /\ inFlight' = inFlight \ {config.proposalId}
  /\ simOutputs' = PushOutput(simOutputs,
                     [sim |-> <<"sim", config.proposalId>>,
                      proposal |-> [id |-> config.proposalId],
                      latestBlock |-> "latest", config |-> config])
  /\ IF SIM_NAME
     THEN pc' = "inferGovernorType" /\ UNCHANGED simIdx
     ELSE pc' = "simLoop" /\ simIdx' = simIdx + 1
  /\ UNCHANGED <<fmtVars, envVars, govVars, batchVars, config, pdfExists, simLog, simFailed,
                 proposalData, checkVars, reportLog, thrown, exitCode>>

\* variant of OnSimulateRejected: the rejection is caught and the loop goes on
OnSimulateRejected_Caught == pc' = "simLoop" /\ simIdx' = simIdx + 1 /\ UNCHANGED thrown

\* index.ts 116 with 167-172: no try/catch surrounds `await simulate(config)`,
\* its rejection leaves the loop and main()
OnSimulateRejected == Throw("simulate") /\ UNCHANGED simIdx

\* index.ts 43 and 116: simulate rejected
SimulateReject ==
  /\ pc = "awaitSimulate" /\ config.proposalId \in inFlight
  /\ inFlight' = inFlight \ {config.proposalId}
  /\ simFailed' = simFailed \cup {config.proposalId}
  /\ OnSimulateRejected
  /\ UNCHANGED <<fmtVars, envVars, govVars, batchVars, config, pdfExists, simLog,
                 simOutputs, proposalData, checkVars, reportLog, exitCode>>

\* index.ts 96, 119: the loop is over
SimLoopEnd ==
  /\ pc = "simLoop" /\ simIdx > Len(simProposals)
  /\ pc' = "getTimelock"
  /\ UNCHANGED <<fmtVars, envVars, govVars, batchVars, simVars, proposalData, checkVars,
                 reportLog, thrown, exitCode>>

----------------------------------------------------------------------------
(* main(): checks and reports, index.ts 122-165 *)

\* index.ts 124
GetTimelock ==
  /\ pc = "getTimelock"
  /\ proposalData' = [timelock |-> <<"getTimelock", governorType>>]
  /\ pc' = "reportLoop"
  /\ UNCHANGED <<fmtVars, envVars, govVars, batchVars, simVars, checkVars, reportLog,
                 thrown, exitCode>>

\* variant of CheckArgsOf: the first output is read in every iteration
CheckArgsOf_First(o, pd) ==
  [proposal |-> simOutputs[1].proposal, sim |-> simOutputs[1].sim, proposalData |-> pd]

\* index.ts 129 and 141: the arguments of checkProposal
CheckArgsOf(o, pd) == [proposal |-> o.proposal, sim |-> o.sim, proposalData |-> pd]

\* index.ts 126-143: checksToRun is computed and every checkProposal is called
StartChecks ==
  /\ pc = "reportLoop" /\ outIdx <= Len(simOutputs)
  /\ checksToRun' = ChecksToRun(CHECKS_ENABLED)
  /\ checkStatus' = [c \in CheckIds |->
                       IF c \in Range(checksToRun') THEN "running" ELSE "idle"]
  /\ LET o == simOutputs[outIdx] IN
       checkArgs' = [c \in Range(checksToRun') |-> CheckArgsOf(o, proposalData)]
  /\ checkResults' = EmptyMap
  /\ checkLog' = Append(checkLog, outIdx)
  /\ pc' = "awaitChecks"
  /\ UNCHANGED <<fmtVars, envVars, govVars, batchVars, simVars, proposalData, outIdx,
                 faulted, reportLog, thrown, exitCode>>

\* index.ts 141: a checkProposal promise resolved
CheckFulfil(c) ==
  /\ pc \in {"awaitChecks", "rejected"} /\ checkStatus[c] = "running"
  /\ checkStatus' = [checkStatus EXCEPT ![c] = "fulfilled"]
  /\ UNCHANGED <<fmtVars, envVars, govVars, batchVars, simVars, proposalData, outIdx,
                 checksToRun, checkArgs, checkResults, faulted, checkLog, reportLog, pc,
                 thrown, exitCode>>

\* index.ts 136-141: a checkProposal promise rejected; Promise.all rejects with
\* the first rejection and nothing catches it inside main()
CheckReject(c) ==
  /\ pc \in {"awaitChecks", "rejected"} /\ checkStatus[c] = "running"
  /\ checkStatus' = [checkStatus EXCEPT ![c] = "rejected"]
  /\ faulted' = faulted \cup {<<outIdx, c>>}
  /\ IF pc = "awaitChecks" THEN Throw("check") ELSE UNCHANGED <<pc, thrown>>
  /\ UNCHANGED <<fmtVars, envVars, govVars, batchVars, simVars, proposalData, outIdx,
                 checksToRun, checkArgs, checkResults, checkLog, reportLog, exitCode>>

\* variant of AllChecksFulfilled: the first fulfilled check ends the wait
AllChecksFulfilled_Race ==
  checksToRun = <<>> \/ \E c \in Range(checksToRun) : checkStatus[c] = "fulfilled"

\* index.ts 136: Promise.all resolves once every promise has resolved
AllChecksFulfilled == \A c \in Range(checksToRun) : checkStatus[c] = "fulfilled"

\* index.ts 135-145: Promise.all resolved, Object.fromEntries builds the map
ChecksFanIn ==
  /\ pc = "awaitChecks"
  /\ AllChecksFulfilled
  /\ checkResults' = [c \in Range(checksToRun) |->
                        [name |-> CheckName(c),
                         result |-> CheckValue(c, checkArgs[c].proposal, checkArgs[c].sim)]]
  /\ pc' = "getBlocks"
  /\ UNCHANGED <<fmtVars, envVars, govVars, batchVars, simVars, proposalData, outIdx,
                 checksToRun, checkStatus, checkArgs, faulted, checkLog, reportLog, thrown,
                 exitCode>>

\* index.ts 148-151
GetBlocks ==
  /\ pc = "getBlocks"
  /\ pc' = "generateAndSaveReports"
  /\ UNCHANGED <<fmtVars, envVars, govVars, batchVars, simVars, proposalData, checkVars,
                 reportLog, thrown, exitCode>>

\* index.ts 155-162
GenerateAndSaveReports ==
  /\ pc = "generateAndSaveReports"
  /\ LET o == simOutputs[outIdx] IN
       reportLog' = Append(reportLog,
                      [governorType |-> governorType, proposal |-> o.proposal,
                       checkResults |-> checkResults,
                       dir |-> <<o.config.daoName, o.config.governorAddress>>])
  /\ outIdx' = outIdx + 1
  /\ pc' = "reportLoop"
  /\ UNCHANGED <<fmtVars, envVars, govVars, batchVars, simVars, proposalData, checksToRun,
                 checkStatus, checkArgs, checkResults, faulted, checkLog, thrown,
                 exitCode>>

\* index.ts 126, 163-164
ReportLoopEnd ==
  /\ pc = "reportLoop" /\ outIdx > Len(simOutputs)
  /\ pc' = "done"
  /\ UNCHANGED <<fmtVars, envVars, govVars, batchVars, simVars, proposalData, checkVars,
                 reportLog, thrown, exitCode>>

\* an awaited collaborator other than simulate and the checks rejects
FalliblePcs == {"getLatestBlock", "inferGovernorType", "getProposalIds", "fetchStates",
                "getTimelock", "getBlocks", "generateAndSaveReports"}

ExternalFault ==
  /\ pc \in FalliblePcs
  /\ Throw(pc)
  /\ UNCHANGED <<fmtVars, envVars, govVars, batchVars, simVars, proposalData, checkVars,
                 reportLog, exitCode>>

\* index.ts 168
MainThen ==
  /\ pc = "done"
  /\ exitCode' = <<0>>
  /\ pc' = "exited"
  /\ UNCHANGED <<fmtVars, envVars, govVars, batchVars, simVars, proposalData, checkVars,
                 reportLog, thrown>>

\* variant of CatchExitCode: the error is logged and the run reports success
CatchExitCode_Zero == <<0>>

\* index.ts 171: process.exit(1)
CatchExitCode == <<1>>

\* index.ts 169-172
MainCatch ==
  /\ pc = "rejected"
  /\ exitCode' = CatchExitCode
  /\ pc' = "exited"
  /\ UNCHANGED <<fmtVars, envVars, govVars, batchVars, simVars, proposalData, checkVars,
                 reportLog, thrown>>

Next ==
  \/ ImportConfig
  \/ SimulateSingle
  \/ RequireEnv
  \/ GetLatestBlock
  \/ InferGovernorType
  \/ GetProposalIds
  \/ FetchStates
  \/ SimLoopStep
  \/ SimulateReturn
  \/ SimulateReject
  \/ SimLoopEnd
  \/ GetTimelock
  \/ StartChecks
  \/ \E c \in CheckIds : CheckFulfil(c)
  \/ \E c \in CheckIds : CheckReject(c)
  \/ ChecksFanIn
  \/ GetBlocks
  \/ GenerateAndSaveReports
  \/ ReportLoopEnd
  \/ ExternalFault
  \/ MainThen
  \/ MainCatch

Spec == Init /\ [][Next]_vars

\* the event loop resumes main() whenever the call it awaits has settled
LiveSpec == Spec /\ WF_vars(Next)

----------------------------------------------------------------------------
(* Decoding and formatting of a proposal's actions:                        *)
(* checks/compound/formatters/erc20-formatters.ts and formattersLookup.    *)
(* Texts are sequences of tokens; numbers are written digit by digit.      *)

\* most actions of a proposal
MaxActions == 2
\* most decimals of a token
MaxDecimals == 6
\* largest leading factor of an amount
MaxMantissa == 15

Addresses == {"0xA", "0xB"}
ContractNames == {"ERC20", "Timelock"}

RECURSIVE Pow10(_)
Pow10(n) == IF n = 0 THEN 1 ELSE 10 * Pow10(n - 1)

DigitValue(ch) == CHOOSE d \in 0..9 : Digit[d + 1] = ch

\* BigInt(str) of a decimal string
RECURSIVE BigInt(_)
BigInt(str) ==
  IF Len(str) = 0 THEN 0
  ELSE 10 * BigInt(SubSeq(str, 1, Len(str) - 1)) + DigitValue(str[Len(str)])

\* parseFloat(`1e${decimals}`)
ParseFloat1e(decimals) == Pow10(decimals)

\* defactor of ./helper: the quotient f / scale
defactor(f, scale) == [num |-> f, den |-> scale]

\* x.toFixed(digits): the nearest multiple of 10^-digits; a quotient half way
\* between two multiples is not exact as a double and may go either way
ToFixed(x, digits) ==
  LET unit == Pow10(digits)
      q == (x.num * unit) \div x.den
      r == (x.num * unit) % x.den
      ns == IF 2 * r < x.den THEN {q} ELSE IF 2 * r > x.den THEN {q + 1} ELSE {q, q + 1}
      Frac(n) == [i \in 1..digits |-> Digit[((n \div Pow10(digits - i)) % 10) + 1]]
  IN {String(n \div unit) \o (IF digits > 0 THEN <<".">> \o Frac(n) ELSE <<>>) : n \in ns}

\* results of the helpers of ./helper and ../abi-utils
Platform == <<"platform">>
ContractNameOf(address) == <<"name(", address, ")">>
SymbolOf(address) == <<"symbol(", address, ")">>
FormattedTokenWithLink(address, amount) == <<"token(", address, " ">> \o amount \o <<")">>
FormattedTokenNameWithLink(address) == <<"tokenName(", address, ")">>
RecipientNameWithLink(address) == <<"recipient(">> \o address \o <<")">>
PercentageForTokenFactor(factor) == <<"percentage(">> \o factor \o <<")">>

TransferSig == "transfer(address,uint256)"
ApproveSig == "approve(address,uint256)"
SetReserveFactorSig == "_setReserveFactor(uint256)"
DepositForBurnSig == "depositForBurn(uint256,uint32,bytes32,address)"
SetTextSig == "setText(bytes32,string,string)"
SetSubnodeRecordSig == "setSubnodeRecord(bytes32,bytes32,address,address,uint64)"
SetInterestRateModelSig == "_setInterestRateModel(address)"
GrantsNode == <<"0x7dcf87198fd673716e5a32b206d9379c4fcbad8875073f52bfd0656759bf89ed">>

\* erc20-formatters.ts 17-24
Transfer(transaction, decodedParams) ==
  {<<"\n\nTransfer ">> \o FormattedTokenWithLink(transaction.target, decodedParams[2])
     \o <<" to ">> \o RecipientNameWithLink(decodedParams[1]) \o <<".">>}

\* erc20-formatters.ts 25-33
Approve(transaction, decodedParams) ==
  {<<"\n\nApprove ">> \o FormattedTokenWithLink(transaction.target, decodedParams[2])
     \o <<" tokens to ">> \o RecipientNameWithLink(decodedParams[1])}

\* erc20-formatters.ts 34-53; prevReserveFactor is what reserveFactorMantissa() answers
SetReserveFactor(transaction, decodedParams) ==
  {LET newReserveFactor == PercentageForTokenFactor(decodedParams[1])
       tokenNameWithLink == FormattedTokenNameWithLink(transaction.target)
       prevReserve == PercentageForTokenFactor(prevReserveFactor)
   IN IF prevReserve # newReserveFactor
      THEN <<"\n\nSet reserve factor for ">> \o tokenNameWithLink \o <<" from ">>
             \o prevReserve \o <<"% to ">> \o newReserveFactor \o <<"%">>
      ELSE <<"\n\nSet reserve factor for ">> \o tokenNameWithLink \o <<" to ">>
             \o newReserveFactor \o <<"%">>
   : prevReserveFactor \in {<<"5">>, <<"7">>}}

\* variant of BurnContractAddress: the token called is taken for the burn token
BurnContractAddress_Target(transaction, decodedParams) == transaction.target

\* erc20-formatters.ts 63
BurnContractAddress(transaction, decodedParams) == decodedParams[4][1]

\* erc20-formatters.ts 54-77
DepositForBurn(transaction, decodedParams) ==
  LET burnContractAddress == BurnContractAddress(transaction, decodedParams)
      decimals == tokenDecimals[burnContractAddress]
      amounts == ToFixed(defactor(BigInt(decodedParams[1]), ParseFloat1e(decimals)), 2)
  IN {<<"\n\nSet DepositforBurn of ">> \o ContractNameOf(transaction.target)
        \o <<" for the Burn contract [">> \o SymbolOf(burnContractAddress)
        \o <<"](https://">> \o Platform \o <<"/address/", burnContractAddress>>
        \o <<") with amount ">> \o amount \o <<", destination domain ">>
        \o decodedParams[2] \o <<" and the Mint recipient ">> \o decodedParams[3]
      : amount \in amounts}

\* erc20-formatters.ts 78-88
SetText(transaction, decodedParams) ==
  LET ENSSubdomain == IF decodedParams[1] = GrantsNode
                      THEN "v3-additional-grants.compound-community-licenses.eth"
                      ELSE "Unknown ENS Name"
  IN {<<"\n\nSet ENS text for ", ENSSubdomain, " with key: ">> \o decodedParams[2]
        \o <<" and value:\n\n ">> \o decodedParams[3]}

\* erc20-formatters.ts 89-102
SetSubnodeRecord(transaction, decodedParams) ==
  {<<"\n\nCreate new ", "v3-additional-grants", " ENS subdomain for ",
     "compound-community-licenses.eth", " with [">> \o ContractNameOf(decodedParams[3][1])
     \o <<"](https://">> \o Platform \o <<"/address/">> \o decodedParams[3]
     \o <<") as owner and [">> \o ContractNameOf(decodedParams[4][1])
     \o <<"](https://">> \o Platform \o <<"/address/">> \o decodedParams[4]
     \o <<") as resolver and ttl = ">> \o decodedParams[5]}

\* erc20-formatters.ts 103-113
SetInterestRateModel(transaction, decodedParams) ==
  {<<"\n\nSet [interest rate model](https://">> \o Platform \o <<"/address/">>
     \o decodedParams[1] \o <<") for ">>
     \o FormattedTokenNameWithLink(transaction.target) \o <<".">>}

\* erc20-formatters.ts 16-114: the keys of ERC20Formatters
ERC20FormatterKeys ==
  {TransferSig, ApproveSig, SetReserveFactorSig, DepositForBurnSig, SetTextSig,
   SetSubnodeRecordSig, SetInterestRateModelSig}

\* erc20-formatters.ts 16-114: the texts ERC20Formatters[sig] can resolve to
ERC20Formatters(sig, transaction, decodedParams) ==
  CASE sig = TransferSig -> Transfer(transaction, decodedParams)
    [] sig = ApproveSig -> Approve(transaction, decodedParams)
    [] sig = SetReserveFactorSig -> SetReserveFactor(transaction, decodedParams)
    [] sig = DepositForBurnSig -> DepositForBurn(transaction, decodedParams)
    [] sig = SetTextSig -> SetText(transaction, decodedParams)
    [] sig = SetSubnodeRecordSig -> SetSubnodeRecord(transaction, decodedParams)
    [] sig = SetInterestRateModelSig -> SetInterestRateModel(transaction, decodedParams)

\* erc20-formatters.ts: the formatters that await a read which can reject
\* (setText alone awaits nothing)
AwaitsReads(sig) == sig \in ERC20FormatterKeys \ {SetTextSig}

\* index.ts 181-191: formattersLookup[name][sig] is defined; of its rows only
\* ERC20Formatters is modelled
HasFormatter(name, sig) == name = "ERC20" /\ sig \in ERC20FormatterKeys

\* the raw calldata of an action, as it is printed
RawCalldata(action) ==
  <<action.signature>> \o
  [i \in 1..Len(action.params) |-> IF action.params[i] = <<>> THEN "" ELSE action.params[i][1]]

\* the generic description of an action that could not be formatted
Fallback(action) == <<"\n\nCall ", action.target, " with calldata ">> \o RawCalldata(action)

FmtDomain == DOMAIN actions

\* the contract name and ABI of the target are resolved
ResolveAbi(i) ==
  /\ stage[i] = "idle"
  /\ \E name \in ContractNames : contractName' = [contractName EXCEPT ![i] = name]
  /\ stage' = [stage EXCEPT ![i] = "resolved"]
  /\ UNCHANGED <<actions, prose, tokenDecimals, raised>>

\* the ABI of the target cannot be resolved: generic description
AbiUnresolved(i) ==
  /\ stage[i] = "idle"
  /\ stage' = [stage EXCEPT ![i] = "fallbackAbi"]
  /\ prose' = [prose EXCEPT ![i] = Fallback(actions[i])]
  /\ UNCHANGED <<actions, contractName, tokenDecimals, raised>>

\* no formatter is registered for (contractName, signature): generic description
NoFormatter(i) ==
  /\ stage[i] = "resolved"
  /\ ~HasFormatter(contractName[i], actions[i].signature)
  /\ stage' = [stage EXCEPT ![i] = "fallbackNoFormatter"]
  /\ prose' = [prose EXCEPT ![i] = Fallback(actions[i])]
  /\ UNCHANGED <<actions, contractName, tokenDecimals, raised>>

\* the formatter found in formattersLookup resolved
RunFormatter(i) ==
  /\ stage[i] = "resolved"
  /\ HasFormatter(contractName[i], actions[i].signature)
  /\ \E text \in ERC20Formatters(actions[i].signature, [target |-> actions[i].target],
                                 actions[i].params) :
       prose' = [prose EXCEPT ![i] = text]
  /\ stage' = [stage EXCEPT ![i] = "formatted"]
  /\ UNCHANGED <<actions, contractName, tokenDecimals, raised>>

\* variant of OnFormatterFault: the error of the formatter is passed on
OnFormatterFault_Rethrow(i) ==
  /\ stage' = [stage EXCEPT ![i] = "failed"]
  /\ raised' = TRUE
  /\ UNCHANGED prose

\* a fault of the formatter is caught: generic description
OnFormatterFault(i) ==
  /\ stage' = [stage EXCEPT ![i] = "fallbackFault"]
  /\ prose' = [prose EXCEPT ![i] = Fallback(actions[i])]
  /\ UNCHANGED raised

\* a read awaited by the formatter rejected
FormatterFault(i) ==
  /\ stage[i] = "resolved"
  /\ HasFormatter(contractName[i], actions[i].signature)
  /\ AwaitsReads(actions[i].signature)
  /\ OnFormatterFault(i)
  /\ UNCHANGED <<actions, contractName, tokenDecimals>>

mainVars == <<SIM_NAME, GOVERNOR_ADDRESS, DAO_NAME, CHECKS_ENABLED, pc, governorType,
              inferCalls, proposalIds, states, simProposals, simIdx, config, pdfExists,
              inFlight, simLog, simFailed, simOutputs, proposalData, outIdx,
              checksToRun, checkStatus, checkArgs, checkResults, faulted, checkLog,
              reportLog, thrown, exitCode>>

\* main() is not running
MainIdle ==
  /\ SIM_NAME = FALSE /\ GOVERNOR_ADDRESS = FALSE /\ DAO_NAME = FALSE
  /\ CHECKS_ENABLED = [defined |-> FALSE, value |-> <<>>]
  /\ pc = "start" /\ governorType = "unset" /\ inferCalls = 0
  /\ proposalIds = <<>> /\ states = <<>> /\ simProposals = <<>> /\ simIdx = 1
  /\ config = NoConfig /\ pdfExists = [id \in ProposalIdSet |-> "unqueried"]
  /\ inFlight = {} /\ simLog = <<>> /\ simFailed = {} /\ simOutputs = <<>>
  /\ proposalData = [timelock |-> <<"unresolved">>] /\ outIdx = 1
  /\ checksToRun = <<>> /\ checkStatus = [c \in CheckIds |-> "idle"]
  /\ checkArgs = EmptyMap /\ checkResults = EmptyMap /\ faulted = {}
  /\ checkLog = <<>> /\ reportLog = <<>> /\ thrown = "none" /\ exitCode = <<>>

Action(target, signature, params) ==
  [target |-> target, signature |-> signature, params |-> params]

\* the actions decoded: one call of every formatter and a call without formatter
DecodeActions ==
  {Action(t, TransferSig, << <<"0xB">>, <<"5">> >>) : t \in Addresses} \cup
  {Action("0xA", ApproveSig, << <<"0xB">>, <<"5">> >>),
   Action("0xA", SetReserveFactorSig, << <<"5">> >>),
   Action("0xA", DepositForBurnSig,
          << String(Pow10(MaxDecimals)), <<"3">>, <<"0xR">>, <<"0xB">> >>),
   Action("0xA", SetTextSig, << GrantsNode, <<"key">>, <<"value">> >>),
   Action("0xA", SetTextSig, << <<"0x00">>, <<"key">>, <<>> >>),
   Action("0xA", SetSubnodeRecordSig,
          << <<"0x01">>, <<"0x02">>, <<"0xA">>, <<"0xB">>, <<"0">> >>),
   Action("0xA", SetInterestRateModelSig, << <<"0xB">> >>),
   Action("0xA", "unknown()", <<>>)}

FmtInit(acts, decimals) ==
  /\ MainIdle
  /\ actions = acts
  /\ stage = [i \in DOMAIN acts |-> "idle"]
  /\ contractName = [i \in DOMAIN acts |-> "none"]
  /\ prose = [i \in DOMAIN acts |-> <<>>]
  /\ tokenDecimals = decimals
  /\ raised = FALSE

DecodeInit ==
  \E acts \in SeqsUpTo(DecodeActions, MaxActions) :
    /\ acts # <<>>
    /\ FmtInit(acts, [a \in Addresses |-> IF a = "0xB" THEN MaxDecimals ELSE 0])

\* amounts of at most MaxMantissa * 10^(MaxDecimals - 1) base units
Amounts == {m * Pow10(e) : m \in 0..MaxMantissa, e \in 0..(MaxDecimals - 1)}

\* one depositForBurn call of any amount, on tokens of any decimals
RenderInit ==
  \E target \in Addresses, burn \in Addresses, amount \in Amounts,
     decimals \in [Addresses -> 0..MaxDecimals] :
    FmtInit(<<Action(target, DepositForBurnSig,
                     << String(amount), <<"3">>, <<"0xR">>, <<burn>> >>)>>, decimals)

DecodeNext ==
  \/ \E i \in FmtDomain : ResolveAbi(i) /\ UNCHANGED mainVars
  \/ \E i \in FmtDomain : AbiUnresolved(i) /\ UNCHANGED mainVars
  \/ \E i \in FmtDomain : NoFormatter(i) /\ UNCHANGED mainVars
  \/ \E i \in FmtDomain : RunFormatter(i) /\ UNCHANGED mainVars
  \/ \E i \in FmtDomain : FormatterFault(i) /\ UNCHANGED mainVars

DecodeSpec == DecodeInit /\ [][DecodeNext]_vars

RenderSpec == RenderInit /\ [][DecodeNext]_vars

----------------------------------------------------------------------------
(* Properties *)

BatchRun == ~SIM_NAME
Recognised(st) == String(st) \in DOMAIN PROPOSAL_STATES
StageOf(st) == PROPOSAL_STATES[String(st)]
OtherStages == {"Pending", "Active", "Canceled", "Defeated", "Succeeded", "Queued", "Expired"}
\* number of simulate requests issued for proposal `id`
Requests(id) == Cardinality({i \in DOMAIN simLog : simLog[i].proposalId = id})
Simulated(id) == \E i \in DOMAIN simOutputs : simOutputs[i].config.proposalId = id
Reported(id) == \E i \in DOMAIN reportLog : reportLog[i].proposal.id = id
Checked(id) == \E i \in DOMAIN checkLog : simOutputs[checkLog[i]].proposal.id = id

\* C1: in a batch run the simType derived for a proposal is `executed` exactly
\* when its governor state ordinal maps to stage Executed and `proposed` for
\* every other recognised stage; no config handed to simulate has type
\* `executed` for a proposal whose stage is not Executed.
C1_SimTypeMatchesStage ==
  BatchRun =>
    /\ \A i \in DOMAIN simProposals :
         /\ simProposals[i].id = proposalIds[i]
         /\ Recognised(states[i]) =>
              /\ simProposals[i].simType = "executed" <=> StageOf(states[i]) = "Executed"
              /\ StageOf(states[i]) \in OtherStages => simProposals[i].simType = "proposed"
    /\ \A c \in Range(simLog) \cup ({config} \ {NoConfig}) :
         c.type = "executed" =>
           \E i \in DOMAIN proposalIds :
             /\ proposalIds[i] = c.proposalId
             /\ Recognised(states[i]) /\ StageOf(states[i]) = "Executed"

C1_Witness ==
  /\ BatchRun /\ Len(simProposals) = 2 /\ Len(simLog) = 1
  /\ states[1] = 5 /\ simProposals[1].simType = "proposed"
  /\ states[2] = 7 /\ simProposals[2].simType = "executed"
  /\ simLog[1].type = "executed" /\ simLog[1].proposalId = proposalIds[2]

\* C2: a check that throws is captured as a CheckResult of its checkId: the
\* fault does not leave main(), the report of that proposal is rendered with an
\* entry for the check, and every simulated proposal of the batch is reported.
C2_CheckFaultContained ==
  BatchRun =>
    \A f \in faulted :
      /\ thrown # "check"
      /\ (pc = "exited" /\ thrown = "none") =>
           /\ \E i \in DOMAIN reportLog :
                /\ reportLog[i].proposal = simOutputs[f[1]].proposal
                /\ f[2] \in DOMAIN reportLog[i].checkResults
           /\ Len(reportLog) = Len(simOutputs)

\* C3: every proposal that reached the check phase has, when the run is over
\* without any fault other than faults of checks, been handed to
\* generateAndSaveReports with a map whose keys are exactly checksToRun.
C3_ResultKeysEqualEnabled ==
  (pc = "exited" /\ thrown \in {"none", "check"}) =>
    \A k \in Range(checkLog) :
      \E i \in DOMAIN reportLog :
        /\ reportLog[i].proposal = simOutputs[k].proposal
        /\ DOMAIN reportLog[i].checkResults = Range(ChecksToRun(CHECKS_ENABLED))

\* C4: a simulate request is issued only while no other request is in flight,
\* so at most one request is in flight at any time.
C4_OneSimulationInFlight ==
  [][simLog' # simLog => (inFlight = {} /\ Cardinality(inFlight') = 1)]_vars

C4_Witness ==
  /\ BatchRun /\ Len(simLog) = 2 /\ Len(simOutputs) = 1
  /\ inFlight = {simLog[2].proposalId}

\* C5: in a batch run an `executed`-type proposal whose report artifact exists
\* gets no simulate request, no check and no generateAndSaveReports call.
C5_ExistingReportSkipped ==
  BatchRun =>
    \A i \in DOMAIN simProposals :
      (simProposals[i].simType = "executed" /\ pdfExists[simProposals[i].id] = "present") =>
        /\ Requests(simProposals[i].id) = 0
        /\ ~Simulated(simProposals[i].id)
        /\ ~Checked(simProposals[i].id)
        /\ ~Reported(simProposals[i].id)

C5_Witness ==
  /\ BatchRun /\ pc = "exited" /\ exitCode = <<0>> /\ Len(simProposals) = 2
  /\ simProposals[1].simType = "executed" /\ pdfExists[simProposals[1].id] = "present"
  /\ simProposals[2].simType = "executed" /\ Reported(simProposals[2].id)

\* C6: when the simulation loop of a batch run has ended, every proposal not
\* skipped by the idempotence gate (`executed` type with an existing report)
\* has received exactly one simulate request, `proposed`-type proposals
\* included, and no proposal has received more than one.
C6_ExactlyOneRequest ==
  (BatchRun /\ pc = "getTimelock") =>
    \A i \in DOMAIN simProposals :
      LET id == simProposals[i].id
          gated == simProposals[i].simType = "executed" /\ pdfExists[id] = "present"
      IN /\ Requests(id) <= 1
         /\ ~gated => Requests(id) = 1

\* C7: once simulate has rejected for a proposal the batch is over: the request
\* was issued once, it is the last request of the run, no later proposal is
\* looked at, and the run is in or on its way to the error outcome (exit 1).
C7_SimulateFailureFatal ==
  \A id \in simFailed :
    /\ Requests(id) = 1
    /\ simLog[Len(simLog)].proposalId = id
    /\ simFailed = {id}
    /\ inFlight = {}
    /\ BatchRun => simProposals[simIdx].id = id
    /\ thrown = "simulate"
    /\ pc \in {"rejected", "exited"}
    /\ exitCode \in {<<>>, <<1>>}
    /\ pc = "exited" => exitCode = <<1>>

C7_Witness ==
  /\ BatchRun /\ pc = "exited" /\ exitCode = <<1>>
  /\ Len(simProposals) = 2 /\ simProposals[2].simType = "executed"
  /\ simFailed = {simProposals[1].id}
  /\ pdfExists[simProposals[2].id] = "unqueried"

\* C8: a governor state ordinal without entry in the state table is given no
\* simType and no SimulationConfig is built for its proposal.
C8_UnknownOrdinalNotMapped ==
  BatchRun =>
    \A i \in DOMAIN simProposals :
      ~Recognised(states[i]) =>
        /\ simProposals[i].simType \notin {"proposed", "executed"}
        /\ config.proposalId # simProposals[i].id

\* k is one of the comma-separated items of the string s
IsItem(k, s) ==
  LET padded == <<",">> \o s \o <<",">>
      wanted == <<",">> \o k \o <<",">>
  IN IsSubstring(wanted, padded)

ExpectedEnabled ==
  IF ~CHECKS_ENABLED.defined \/ CHECKS_ENABLED.value = <<>>
  THEN CheckIds
  ELSE {k \in CheckIds : IsItem(k, CHECKS_ENABLED.value)}

\* C9: the enabled checks computed for a proposal are the registry keys that
\* are items of the allow-list when it is non-empty and all registry keys when
\* it is absent or empty, in registry order, and the maps of all reports of a
\* run have these keys.
C9_EnabledSet ==
  /\ checkLog # <<>> =>
       /\ Range(checksToRun) = ExpectedEnabled
       /\ \A i, j \in DOMAIN checksToRun :
            i < j => \E m, n \in DOMAIN ALL_CHECKS_KEYS :
                       m < n /\ ALL_CHECKS_KEYS[m] = checksToRun[i]
                             /\ ALL_CHECKS_KEYS[n] = checksToRun[j]
  /\ \A i \in DOMAIN reportLog : DOMAIN reportLog[i].checkResults = ExpectedEnabled

C9_Witness ==
  /\ Len(checkLog) = 2 /\ Len(reportLog) = 1
  /\ CHECKS_ENABLED.value = <<"a", "a">>
  /\ checksToRun = << <<"a", "a">> >>

\* C10: while the checks of a proposal are awaited every enabled check has been
\* started, and the report of the proposal is prepared and generated only when
\* no enabled check is unsettled.
C10_FanOutFanIn ==
  /\ pc = "awaitChecks" => \A c \in Range(checksToRun) : checkStatus[c] # "idle"
  /\ pc \in {"getBlocks", "generateAndSaveReports"} =>
       \A c \in Range(checksToRun) : checkStatus[c] \in {"fulfilled", "rejected"}

C10_Witness ==
  /\ pc = "generateAndSaveReports" /\ Len(reportLog) = 1
  /\ Len(checksToRun) = 2
  /\ \A c \in Range(checksToRun) : checkStatus[c] = "fulfilled"


\* C11: a failing timelock lookup (MissingTimelock) excludes at most the
\* affected proposal: when the run is over at most one simulated proposal has
\* no report.
C11_ProposalFatalOnly ==
  (BatchRun /\ pc = "exited" /\ thrown = "getTimelock") =>
    Cardinality({i \in DOMAIN simOutputs : ~Reported(simOutputs[i].proposal.id)}) <= 1

CheckPhasePcs == {"awaitChecks", "getBlocks", "generateAndSaveReports"}

\* what the checks of the current iteration and the report must be given
InputsIntact ==
  /\ pc \in CheckPhasePcs =>
       \A c \in Range(checksToRun) :
         /\ checkArgs[c].proposal = simOutputs[outIdx].proposal
         /\ checkArgs[c].sim = simOutputs[outIdx].sim
         /\ checkArgs[c].proposalData = proposalData
  /\ \A i \in DOMAIN reportLog : reportLog[i].proposal = simOutputs[i].proposal

DoneStages == {"formatted", "fallbackAbi", "fallbackNoFormatter", "fallbackFault"}
FallbackStages == DoneStages \ {"formatted"}
Decoded(i) == stage[i] \notin {"idle", "resolved"}
HasGenericText(i) ==
  /\ IsSubstring(<<actions[i].target>>, prose[i])
  /\ IsSubstring(RawCalldata(actions[i]), prose[i])

\* C12: decoding an action never raises and always yields a non-empty text:
\* an action whose ABI is not resolved, that has no formatter registered for
\* (contractName, signature), or whose formatter faults gets the generic text
\* holding the raw target and the raw calldata, and a step of one action's
\* decoding leaves the other actions' decoding and every finished text as it was.
C12_DecodeNeverRaises ==
  [][/\ ~raised'
     /\ \A i \in DOMAIN actions :
          /\ Decoded(i)' => (stage'[i] \in DoneStages /\ prose'[i] # <<>>)
          /\ stage'[i] \in FallbackStages => HasGenericText(i)'
          /\ (stage[i] = "idle" /\ Decoded(i)') => stage'[i] = "fallbackAbi"
          /\ (stage[i] = "resolved" /\ Decoded(i)'
                /\ ~HasFormatter(contractName[i], actions[i].signature))
               => stage'[i] = "fallbackNoFormatter"
          /\ stage'[i] = "formatted" => HasFormatter(contractName[i], actions[i].signature)
          /\ stage'[i] # stage[i] =>
               \A j \in DOMAIN actions \ {i} : stage'[j] = stage[j] /\ prose'[j] = prose[j]
          /\ Decoded(i) => (stage'[i] = stage[i] /\ prose'[i] = prose[i])]_vars

C12_Witness ==
  /\ Len(actions) = 2
  /\ stage[1] = "fallbackFault" /\ HasGenericText(1)
  /\ actions[1].signature = TransferSig
  /\ stage[2] = "formatted" /\ actions[2].signature = SetTextSig
  /\ ~raised

\* the amount printed by the depositForBurn formatter
AmountText(text) ==
  LET p == CHOOSE k \in 1..Len(text) : text[k] = ") with amount "
      q == CHOOSE k \in 1..Len(text) : text[k] = ", destination domain "
  IN SubSeq(text, p + 1, q - 1)

\* t is a decimal numeral with exactly two digits after the point
IsTwoPlaces(t) ==
  /\ Len(t) >= 4
  /\ t[Len(t) - 2] = "."
  /\ \A k \in (1..Len(t)) \ {Len(t) - 2} : t[k] \in Range(Digit)
  /\ Len(t) = 4 \/ t[1] # "0"

\* a hundred times the value of such a numeral
Hundredths(t) == BigInt(SubSeq(t, 1, Len(t) - 3) \o SubSeq(t, Len(t) - 1, Len(t)))

Abs(x) == IF x < 0 THEN -x ELSE x

\* C13: the depositForBurn formatter prints its amount argument divided by
\* 10^decimals of the burn token with exactly two decimal places (the nearest
\* hundredth of the quotient); 1,000,000 base units of a 6-decimal token
\* print as "1.00".
C13_TwoDecimalQuotient ==
  \A i \in DOMAIN actions :
    (stage[i] = "formatted" /\ actions[i].signature = DepositForBurnSig) =>
      LET a == BigInt(actions[i].params[1])
          d == tokenDecimals[actions[i].params[4][1]]
          t == AmountText(prose[i])
      IN /\ IsTwoPlaces(t)
         /\ 2 * Abs(100 * a - Hundredths(t) * Pow10(d)) <= Pow10(d)
         /\ (a = 1000000 /\ d = 6) => t = <<"1", ".", "0", "0">>

C13_Witness ==
  /\ Len(actions) = 1
  /\ stage[1] = "formatted" /\ actions[1].signature = DepositForBurnSig
  /\ actions[1].params[1] = <<"1", "0", "0", "0", "0", "0", "0">>
  /\ actions[1].target # actions[1].params[4][1]
  /\ tokenDecimals[actions[1].params[4][1]] = 6
  /\ tokenDecimals[actions[1].target] = 2
  /\ AmountText(prose[1]) = <<"1", ".", "0", "0">>

\* C14: a stored simulation output is never changed, the check context is not
\* changed once the checks of a proposal have started, every check of a
\* proposal is called with that proposal's stored sim and proposal and the
\* context, and the report is given the stored proposal.
C14_InputsUnchanged ==
  [][/\ \A i \in DOMAIN simOutputs : i \in DOMAIN simOutputs' /\ simOutputs'[i] = simOutputs[i]
     /\ checkLog # <<>> => proposalData' = proposalData
     /\ InputsIntact']_vars

C14_Witness ==
  /\ Len(reportLog) = 2 /\ Len(checksToRun) = 2
  /\ \A c \in Range(checksToRun) : checkArgs[c].proposal = simOutputs[2].proposal
  /\ simOutputs[1].proposal # simOutputs[2].proposal

\* position of a proposal id in proposalIds
IndexOf(id) == CHOOSE i \in DOMAIN proposalIds : proposalIds[i] = id

\* C15: in a batch run simulate requests are issued in the order of proposalIds,
\* reports are generated in the order of the simulations, and the checks of an
\* output start only after the reports of all earlier outputs were generated.
C15_OrderPreserved ==
  BatchRun =>
    /\ \A i, j \in DOMAIN simLog :
         i < j => /\ simLog[i].proposalId \in Range(proposalIds)
                  /\ simLog[j].proposalId \in Range(proposalIds)
                  /\ IndexOf(simLog[i].proposalId) < IndexOf(simLog[j].proposalId)
    /\ \A i \in DOMAIN simOutputs : simOutputs[i].config = simLog[i]
    /\ \A i \in DOMAIN reportLog : reportLog[i].proposal.id = simLog[i].proposalId
    /\ \A i \in DOMAIN checkLog : checkLog[i] = i
    /\ Len(reportLog) <= Len(checkLog) /\ Len(checkLog) <= Len(reportLog) + 1

C15_Witness ==
  /\ BatchRun /\ Len(simLog) = 2 /\ Len(reportLog) = 2
  /\ simLog[1].proposalId = proposalIds[1] /\ simLog[2].proposalId = proposalIds[2]

\* C16: inferGovernorType is called at most once in a run and governorType is
\* set by it alone; every config built in a batch run, the timelock lookup and
\* every generateAndSaveReports call carry that governorType.
C16_GovernorTypeFixed ==
  /\ inferCalls <= 1
  /\ governorType # "unset" <=> inferCalls = 1
  /\ BatchRun => \A c \in Range(simLog) \cup ({config} \ {NoConfig}) :
                   c.governorType = governorType
  /\ proposalData.timelock # <<"unresolved">> =>
       proposalData.timelock = <<"getTimelock", governorType>>
  /\ \A i \in DOMAIN reportLog : reportLog[i].governorType = governorType

C16_Witness ==
  /\ BatchRun /\ governorType = "oz" /\ Len(simLog) = 2 /\ Len(reportLog) = 2

\* C17: no check is started and no report generated before the simulation loop
\* has ended with no request in flight; after a rejected simulate no check is
\* started and no report is generated in the run.
C17_TwoPhase ==
  /\ (checkLog # <<>> \/ reportLog # <<>>) =>
       /\ inFlight = {}
       /\ BatchRun => simIdx > Len(simProposals)
       /\ ~BatchRun => Len(simLog) = 1
       /\ Len(simOutputs) = Len(simLog)
  /\ simFailed # {} => (checkLog = <<>> /\ reportLog = <<>>)

C17_Witness ==
  /\ BatchRun /\ pc = "exited" /\ Len(simOutputs) = 1 /\ Len(simLog) = 2
  /\ simFailed = {simLog[2].proposalId} /\ reportLog = <<>>

\* number of generateAndSaveReports calls made for proposal `id`
Reports(id) == Cardinality({i \in DOMAIN reportLog : reportLog[i].proposal.id = id})
\* number of outputs stored for proposal `id`
Outputs(id) == Cardinality({i \in DOMAIN simOutputs : simOutputs[i].config.proposalId = id})

C19_ExitStatus ==
  /\ <>(pc = "exited")
  /\ [](pc = "exited" <=> exitCode # <<>>)
  /\ [](exitCode = <<0>> =>
          /\ thrown = "none" /\ simFailed = {} /\ faulted = {}
          /\ Len(simOutputs) = Len(simLog)
          /\ proposalData.timelock # <<"unresolved">>
          /\ Len(reportLog) = Len(simOutputs))
  /\ []((thrown # "none" /\ pc = "exited") => exitCode = <<1>>)
  /\ [](exitCode = <<1>> => thrown # "none")

C19_Witness ==
  /\ pc = "exited" /\ exitCode = <<1>> /\ thrown = "generateAndSaveReports"
  /\ Len(reportLog) = 1 /\ Len(simOutputs) = 2

\* C20: in a batch run every element of simProposals has simType `executed` or
\* `proposed` and the loop never throws for a simType `new`.
C20_NewUnreachable ==
  BatchRun =>
    /\ \A i \in DOMAIN simProposals : simProposals[i].simType \in {"executed", "proposed"}
    /\ thrown # "new"

C20_Witness ==
  /\ BatchRun /\ pc = "getTimelock" /\ Len(simProposals) = 2
  /\ states[1] = 8 /\ states[2] = 7 /\ Len(simLog) = 1

====
